---------------------------- MODULE Spec2Model ----------------------------
(***************************************************************************)
(* A model of nw, the net-worth tracker (src/src/*.rs).                    *)
(*                                                                         *)
(* Specifications of this module:                                          *)
(*   Spec        the program as a sequence of process invocations, each    *)
(*               loading the portfolio file and running one command        *)
(*   SpecSave    one call of store::save_portfolio, step by step, with     *)
(*               I/O failures and crashes                                  *)
(*   SpecUsd     compute::to_usd on drawn inputs                           *)
(*   SpecShow    compute::compute_show_rows on drawn inputs                *)
(*   SpecRange   compute::filter_by_range on drawn inputs                  *)
(*   SpecHistory compute::compute_history_rows on drawn inputs             *)
(*                                                                         *)
(* Representation.  A Rust String that the code compares or parses (a      *)
(* date) is a sequence of byte values; a String that is only compared for  *)
(* equality (an id, a name) is a TLA+ string.  An f64 is an exact rational *)
(* [n, d] in lowest terms: rounding, infinities and NaN are outside the    *)
(* model.  Option<T> is [some |-> FALSE] or [some |-> TRUE, val |-> x];    *)
(* Result<T, NwError> is [ok |-> TRUE, val |-> x] or                       *)
(* [ok |-> FALSE, err |-> e].                                              *)
(***************************************************************************)
EXTENDS Integers, Sequences, FiniteSets, TLC

VARIABLES
    file,       \* the final path portfolio.json: Absent or a stored document
    tmp,        \* the temporary sibling portfolio.json.tmp (SpecSave)
    dir,        \* whether the parent directory exists (SpecSave)
    portfolio,  \* the in-memory Portfolio of the running process
    pc,         \* the position of the running process
    out,        \* what the last command or call reported
    args,       \* the arguments of the function under study (pure specs)
    ret         \* its return value, NotCalled before the call

vars == <<file, tmp, dir, portfolio, pc, out, args, ret>>

-----------------------------------------------------------------------------
(* Option and Result *)

None == [some |-> FALSE]
Some(x) == [some |-> TRUE, val |-> x]
Ok(x) == [ok |-> TRUE, val |-> x]
Err(e) == [ok |-> FALSE, err |-> e]
NotCalled == [called |-> FALSE]
Returned(x) == [called |-> TRUE, val |-> x]

SeqsUpTo(S, n) == UNION {[1..k -> S] : k \in 0..n}

-----------------------------------------------------------------------------
(* f64 as exact rationals *)

RECURSIVE Gcd(_, _)
Gcd(a, b) == IF b = 0 THEN a ELSE Gcd(b, a % b)

Abs(x) == IF x < 0 THEN -x ELSE x

\* the rational n/d (d /= 0) in lowest terms with a positive denominator
Rat(n, d) ==
    LET g == Gcd(Abs(n), Abs(d))
        s == IF d < 0 THEN -1 ELSE 1
    IN  [n |-> s * (n \div g), d |-> s * (d \div g)]

F(i) == Rat(i, 1)
RatAdd(a, b) == Rat(a.n * b.d + b.n * a.d, a.d * b.d)
RatSub(a, b) == Rat(a.n * b.d - b.n * a.d, a.d * b.d)
RatMul(a, b) == Rat(a.n * b.n, a.d * b.d)
RatDiv(a, b) == Rat(a.n * b.d, a.d * b.n)
RatLeq(a, b) == a.n * b.d <= b.n * a.d

RECURSIVE RatSum(_)
RatSum(s) == IF s = <<>> THEN F(0) ELSE RatAdd(RatSum(SubSeq(s, 1, Len(s) - 1)), s[Len(s)])

-----------------------------------------------------------------------------
(* Strings as byte sequences, and chrono's NaiveDate *)

Space == 32
Plus == 43
Dash == 45
Zero == 48

IsDigit(c) == c \in Zero..(Zero + 9)

\* the decimal digits of n >= 0
RECURSIVE NatStr(_)
NatStr(n) == IF n < 10 THEN <<Zero + n>> ELSE Append(NatStr(n \div 10), Zero + (n % 10))

RECURSIVE ZeroPad(_, _)
ZeroPad(s, w) == IF Len(s) >= w THEN s ELSE ZeroPad(<<Zero>> \o s, w)

\* str::cmp: byte-wise lexicographic order, "Less" | "Equal" | "Greater"
RECURSIVE str_cmp(_, _)
str_cmp(a, b) ==
    IF a = <<>> THEN (IF b = <<>> THEN "Equal" ELSE "Less")
    ELSE IF b = <<>> THEN "Greater"
    ELSE IF a[1] < b[1] THEN "Less"
    ELSE IF a[1] > b[1] THEN "Greater"
    ELSE str_cmp(Tail(a), Tail(b))

\* a NaiveDate
Ymd(y, m, d) == [y |-> y, m |-> m, d |-> d]

\* chrono's calendar: NaiveDate::from_ymd_opt is None for a day the month lacks
\* (chrono's own year range, about +-262000, is far outside the years drawn)
chrono_days(y, m) ==
    IF m = 2 THEN (IF y % 4 = 0 /\ (y % 100 /= 0 \/ y % 400 = 0) THEN 29 ELSE 28)
    ELSE IF m \in {4, 6, 9, 11} THEN 30 ELSE 31

from_ymd_opt(y, m, d) ==
    IF m \in 1..12 /\ d >= 1 /\ d <= chrono_days(y, m) THEN Some(Ymd(y, m, d)) ELSE None

\* NaiveDate::format("%Y-%m-%d").to_string(), also NaiveDate::to_string(): the year
\* zero-padded to 4 digits, with a sign outside 0..9999; month and day to 2
format_ymd(date) ==
    LET year == IF date.y >= 0 /\ date.y <= 9999 THEN ZeroPad(NatStr(date.y), 4)
                ELSE <<IF date.y < 0 THEN Dash ELSE Plus>> \o ZeroPad(NatStr(Abs(date.y)), 4)
    IN  year \o <<Dash>> \o ZeroPad(NatStr(date.m), 2) \o <<Dash>> \o ZeroPad(NatStr(date.d), 2)

\* chrono's scan::number(s, 1, max): the longest run of 1..max leading digits
RECURSIVE DigitRun(_, _)
DigitRun(s, max) ==
    IF max = 0 \/ s = <<>> \/ ~IsDigit(s[1]) THEN 0 ELSE 1 + DigitRun(Tail(s), max - 1)

RECURSIVE DigitsValue(_)
DigitsValue(s) ==
    IF s = <<>> THEN 0 ELSE 10 * DigitsValue(SubSeq(s, 1, Len(s) - 1)) + (s[Len(s)] - Zero)

scan_number(s, max) ==
    LET n == DigitRun(s, max)
    IN  IF n = 0 THEN None
        ELSE Some([val |-> DigitsValue(SubSeq(s, 1, n)), rest |-> SubSeq(s, n + 1, Len(s))])

RECURSIVE trim_start(_)
trim_start(s) == IF s /= <<>> /\ s[1] = Space THEN trim_start(Tail(s)) ELSE s

\* a numeric item of the format: leading white space is skipped; the year (signed)
\* takes any number of digits after a sign and at most `width` without one
scan_numeric(s0, width, signed) ==
    LET s == trim_start(s0)
    IN  IF signed /\ s /= <<>> /\ s[1] = Dash THEN
            LET r == scan_number(Tail(s), Len(s))
            IN  IF r.some THEN Some([val |-> -r.val.val, rest |-> r.val.rest]) ELSE None
        ELSE IF signed /\ s /= <<>> /\ s[1] = Plus THEN scan_number(Tail(s), Len(s))
        ELSE scan_number(s, width)

\* the literal "-" of the format
scan_dash(s) == IF s /= <<>> /\ s[1] = Dash THEN Some(Tail(s)) ELSE None

\* NaiveDate::parse_from_str(s, "%Y-%m-%d"): year, "-", month, "-", day, nothing
\* after, and the three numbers a date of the calendar.  Digits need not be
\* zero-padded: "2024-3-1" parses as 2024-03-01.
parse_from_str(s) ==
    LET y == scan_numeric(s, 4, TRUE)
    IN  IF ~y.some THEN None ELSE
    LET d1 == scan_dash(y.val.rest)
    IN  IF ~d1.some THEN None ELSE
    LET m == scan_numeric(d1.val, 2, FALSE)
    IN  IF ~m.some THEN None ELSE
    LET d2 == scan_dash(m.val.rest)
    IN  IF ~d2.some THEN None ELSE
    LET d == scan_numeric(d2.val, 2, FALSE)
    IN  IF ~d.some THEN None
        ELSE IF d.val.rest /= <<>> THEN None
        ELSE from_ymd_opt(y.val.val, m.val.val, d.val.val)

-----------------------------------------------------------------------------
(* compute::to_usd *)

\* HashMap::get
MapGet(m, k) == IF k \in DOMAIN m THEN Some(m[k]) ELSE None

to_usd_no_passthrough(value, currency, rates) ==
    LET r == MapGet(rates, currency)
    IN  IF r.some THEN Ok(RatDiv(value, r.val)) ELSE Err(<<"RateMissing", currency>>)

to_usd_zero_when_missing(value, currency, rates) ==
    IF currency = "USD" THEN Ok(value)
    ELSE LET r == MapGet(rates, currency)
         IN  IF r.some THEN Ok(RatDiv(value, r.val)) ELSE Ok(F(0))

to_usd(value, currency, rates) ==
    IF currency = "USD" THEN Ok(value)
    ELSE LET r == MapGet(rates, currency)
         IN  IF r.some THEN Ok(RatDiv(value, r.val)) ELSE Err(<<"RateMissing", currency>>)


-----------------------------------------------------------------------------
(* model.rs: the persisted entities *)

Asset(id, name, category, currency) ==
    [id |-> id, name |-> name, category |-> category, currency |-> currency]
SnapshotEntry(asset_id, value) == [asset_id |-> asset_id, value |-> value]
Snapshot(date, rates, entries) == [date |-> date, rates |-> rates, entries |-> entries]
Portfolio(assets, snapshots) == [assets |-> assets, snapshots |-> snapshots]

\* Portfolio::default()
DefaultPortfolio == Portfolio(<<>>, <<>>)

\* the empty HashMap
EmptyMap == [k \in {} |-> F(0)]

ShowRow(asset_name, currency, native_value, usd_value, category) ==
    [asset_name |-> asset_name, currency |-> currency, native_value |-> native_value,
     usd_value |-> usd_value, category |-> category]

-----------------------------------------------------------------------------
(* compute::compute_show_rows *)

\* portfolio.assets.iter().map(|a| (a.id.as_str(), a)).collect(): a later asset
\* with the same id replaces an earlier one
asset_map(assets) ==
    LET ids == {assets[i].id : i \in DOMAIN assets}
        last(id) == CHOOSE i \in DOMAIN assets :
                        /\ assets[i].id = id
                        /\ \A j \in DOMAIN assets : assets[j].id = id => j <= i
    IN  [id \in ids |-> assets[last(id)]]

\* what one iteration of the loop does with its entry
SkipEntry == [kind |-> "skip"]
FailEntry(e) == [kind |-> "fail", err |-> e]
RowEntry(r) == [kind |-> "row", row |-> r]

show_entry_dangling_fails(entry, amap, rates, category_filter) ==
    LET a == MapGet(amap, entry.asset_id)
    IN  IF ~a.some THEN FailEntry(<<"UnknownAssetInEntry", entry.asset_id>>)
        ELSE IF category_filter.some /\ a.val.category /= category_filter.val THEN SkipEntry
        ELSE LET u == to_usd(entry.value, a.val.currency, rates)
             IN  IF ~u.ok THEN FailEntry(u.err)
                 ELSE RowEntry(ShowRow(a.val.name, a.val.currency, entry.value,
                                       u.val, a.val.category))

show_entry_filter_ignored(entry, amap, rates, category_filter) ==
    LET a == MapGet(amap, entry.asset_id)
    IN  IF ~a.some THEN SkipEntry
        ELSE LET u == to_usd(entry.value, a.val.currency, rates)
             IN  IF ~u.ok THEN FailEntry(u.err)
                 ELSE RowEntry(ShowRow(a.val.name, a.val.currency, entry.value,
                                       u.val, a.val.category))

show_entry(entry, amap, rates, category_filter) ==
    LET a == MapGet(amap, entry.asset_id)
    IN  IF ~a.some THEN SkipEntry
        ELSE IF category_filter.some /\ a.val.category /= category_filter.val THEN SkipEntry
        ELSE LET u == to_usd(entry.value, a.val.currency, rates)
             IN  IF ~u.ok THEN FailEntry(u.err)
                 ELSE RowEntry(ShowRow(a.val.name, a.val.currency, entry.value,
                                       u.val, a.val.category))

\* the for loop over snapshot.entries from entry i on, with the accumulators
RECURSIVE show_loop_native_total(_, _, _, _, _, _, _)
show_loop_native_total(entries, i, amap, rates, category_filter, grand_total, rows) ==
    IF i > Len(entries) THEN Ok([total |-> grand_total, rows |-> rows])
    ELSE LET step == show_entry(entries[i], amap, rates, category_filter)
         IN  CASE step.kind = "skip" ->
                    show_loop_native_total(entries, i + 1, amap, rates, category_filter,
                                           grand_total, rows)
               [] step.kind = "fail" -> Err(step.err)
               [] step.kind = "row" ->
                    show_loop_native_total(entries, i + 1, amap, rates, category_filter,
                                           RatAdd(grand_total, step.row.native_value),
                                           Append(rows, step.row))

RECURSIVE show_loop(_, _, _, _, _, _, _)
show_loop(entries, i, amap, rates, category_filter, grand_total, rows) ==
    IF i > Len(entries) THEN Ok([total |-> grand_total, rows |-> rows])
    ELSE LET step == show_entry(entries[i], amap, rates, category_filter)
         IN  CASE step.kind = "skip" ->
                    show_loop(entries, i + 1, amap, rates, category_filter, grand_total, rows)
               [] step.kind = "fail" -> Err(step.err)
               [] step.kind = "row" ->
                    show_loop(entries, i + 1, amap, rates, category_filter,
                              RatAdd(grand_total, step.row.usd_value),
                              Append(rows, step.row))

compute_show_rows(snapshot, p, category_filter) ==
    show_loop(snapshot.entries, 1, asset_map(p.assets), snapshot.rates, category_filter,
              F(0), <<>>)

-----------------------------------------------------------------------------
(* The values the specifications draw their inputs from *)

AssetIds == {"a", "b"}
GhostId == "ghost"                  \* an id no asset has
Names == {"Fund"}
Categories == {"etf", "bank"}
Currencies == {"USD", "EUR"}

MaxAssets == 2
MaxEntries == 2

Distinct(s, key(_)) == \A i, j \in DOMAIN s : key(s[i]) = key(s[j]) => i = j
IdOf(a) == a.id

AssetUniverse == {Asset(i, n, c, u) : i \in AssetIds, n \in Names,
                                      c \in Categories, u \in Currencies}
\* asset lists with distinct ids, as asset add keeps them
AssetLists == {s \in SeqsUpTo(AssetUniverse, MaxAssets) : Distinct(s, IdOf)}

RateTables(keys, vals) == UNION {[K -> vals] : K \in SUBSET keys}

\* when the process is not running (pure specs): nothing on disk, nothing loaded
Absent == [present |-> FALSE]

Idle ==
    /\ file = Absent
    /\ tmp = Absent
    /\ dir = FALSE
    /\ portfolio = DefaultPortfolio
    /\ out = None

Call(result) ==
    /\ pc = "call"
    /\ pc' = "return"
    /\ ret' = Returned(result)
    /\ UNCHANGED <<file, tmp, dir, portfolio, out, args>>

-----------------------------------------------------------------------------
(* SpecUsd: to_usd on every drawn value, currency and rate table *)

UsdValues == {F(0), F(100), F(-50), Rat(1, 2)}
UsdCurrencies == {"USD", "EUR", "GBP"}
UsdRates == {F(2), Rat(1, 4)}

InitUsd ==
    /\ Idle
    /\ pc = "call"
    /\ ret = NotCalled
    /\ args \in [value : UsdValues, currency : UsdCurrencies,
                 rates : RateTables(UsdCurrencies, UsdRates)]

CallToUsd == Call(to_usd(args.value, args.currency, args.rates))

NextUsd == CallToUsd

SpecUsd == InitUsd /\ [][NextUsd]_vars

\* C3: to_usd fails, with RateMissing(c), if and only if c is not "USD" and c is
\* not a key of rates; for c = "USD" it returns v unchanged whatever rates holds.
C3_ToUsdFailsIffRateMissing ==
    ret.called =>
        /\ ~ret.val.ok <=> (args.currency /= "USD" /\ args.currency \notin DOMAIN args.rates)
        /\ ~ret.val.ok => ret.val.err = <<"RateMissing", args.currency>>
        /\ args.currency = "USD" => (ret.val.ok /\ ret.val.val = args.value)

\* a call that failed for a currency with no rate, the table not being empty
C3_Witness ==
    /\ ret.called
    /\ ~ret.val.ok
    /\ args.currency = "GBP"
    /\ "EUR" \in DOMAIN args.rates

-----------------------------------------------------------------------------
(* SpecShow: compute_show_rows on every drawn snapshot, asset list and filter *)

EntryValues == {F(100), F(30)}
ShowRateValues == {F(2), F(4)}
ShowFilters == {None, Some("etf"), Some("bank"), Some("ETF")}

EntryUniverse == {SnapshotEntry(i, v) : i \in AssetIds \cup {GhostId}, v \in EntryValues}
EntryLists == SeqsUpTo(EntryUniverse, MaxEntries)

InitShow ==
    /\ Idle
    /\ pc = "call"
    /\ ret = NotCalled
    /\ \E assets \in AssetLists, entries \in EntryLists,
          rates \in RateTables(Currencies \ {"USD"}, ShowRateValues),
          filter \in ShowFilters :
            args = [snapshot |-> Snapshot(format_ymd(Ymd(2025, 1, 1)), rates, entries),
                    portfolio |-> Portfolio(assets, <<>>),
                    category_filter |-> filter]

CallComputeShowRows ==
    Call(compute_show_rows(args.snapshot, args.portfolio, args.category_filter))

NextShow == CallComputeShowRows

SpecShow == InitShow /\ [][NextShow]_vars

\* stated on the arguments alone: the entry's asset, when there is one
ArgResolves(e) == \E i \in DOMAIN args.portfolio.assets : args.portfolio.assets[i].id = e.asset_id
ArgAsset(e) ==
    args.portfolio.assets[CHOOSE i \in DOMAIN args.portfolio.assets :
                              args.portfolio.assets[i].id = e.asset_id]
ArgMatches(e) ==
    args.category_filter.some => ArgAsset(e).category = args.category_filter.val
ArgKept(e) == ArgResolves(e) /\ ArgMatches(e)
ArgUsd(e) ==
    IF ArgAsset(e).currency = "USD" THEN e.value
    ELSE RatDiv(e.value, args.snapshot.rates[ArgAsset(e).currency])

\* C4: an entry whose asset_id matches no asset adds nothing to the total, emits
\* no row and raises no error: the call returns what it returns on the snapshot
\* without its dangling entries, and with only dangling entries it returns
\* (0, no rows) whatever the values, the rates and the filter.
C4_DanglingEntriesSkipped ==
    ret.called =>
        LET resolving == SelectSeq(args.snapshot.entries, ArgResolves)
        IN  /\ ret.val = compute_show_rows(
                            Snapshot(args.snapshot.date, args.snapshot.rates, resolving),
                            args.portfolio, args.category_filter)
            /\ resolving = <<>> => ret.val = Ok([total |-> F(0), rows |-> <<>>])

\* a successful call on a snapshot with a dangling entry and a resolving one,
\* the rate table being empty
C4_Witness ==
    /\ ret.called
    /\ ret.val.ok
    /\ Len(ret.val.val.rows) = 1
    /\ \E i \in DOMAIN args.snapshot.entries : ~ArgResolves(args.snapshot.entries[i])
    /\ args.snapshot.rates = EmptyMap

\* C5: on success the rows are exactly the entries, in entry order, whose asset
\* resolves and whose asset category equals the filter when one is given, and
\* the grand total is the sum of usd_value over exactly those rows.
C5_TotalIsSumOfReturnedRows ==
    (ret.called /\ ret.val.ok) =>
        LET kept == SelectSeq(args.snapshot.entries, ArgKept)
            rows == ret.val.val.rows
        IN  /\ Len(rows) = Len(kept)
            /\ \A k \in DOMAIN rows :
                  rows[k] = ShowRow(ArgAsset(kept[k]).name, ArgAsset(kept[k]).currency,
                                    kept[k].value, ArgUsd(kept[k]), ArgAsset(kept[k]).category)
            /\ ret.val.val.total = RatSum([k \in DOMAIN rows |-> rows[k].usd_value])

\* a successful filtered call that kept a converted entry and dropped an entry
\* of another category
C5_Witness ==
    /\ ret.called
    /\ ret.val.ok
    /\ args.category_filter.some
    /\ \E i \in DOMAIN args.snapshot.entries :
          ArgResolves(args.snapshot.entries[i]) /\ ~ArgMatches(args.snapshot.entries[i])
    /\ \E k \in DOMAIN ret.val.val.rows :
          /\ ret.val.val.rows[k].currency = "EUR"
          /\ ret.val.val.rows[k].usd_value /= ret.val.val.rows[k].native_value

-----------------------------------------------------------------------------
(* compute::filter_by_range and its calendar arithmetic *)

HistoryRanges == {"OneMonth", "SixMonths", "OneYear", "FiveYears", "All"}

days_in_month_feb_28(year, month) ==
    IF month \in {1, 3, 5, 7, 8, 10, 12} THEN 31
    ELSE IF month \in {4, 6, 9, 11} THEN 30
    ELSE IF month = 2 THEN 28
    ELSE 30

days_in_month(year, month) ==
    IF month \in {1, 3, 5, 7, 8, 10, 12} THEN 31
    ELSE IF month \in {4, 6, 9, 11} THEN 30
    ELSE IF month = 2 THEN
        (IF year % 400 = 0 \/ (year % 4 = 0 /\ year % 100 /= 0) THEN 29 ELSE 28)
    ELSE 30

Min(a, b) == IF a <= b THEN a ELSE b

\* from_ymd_opt(..).unwrap_or_else(|| from_ymd_opt(year, month, 1).expect(..))
ymd_or_first(year, month, day) ==
    LET o == from_ymd_opt(year, month, day)
    IN  IF o.some THEN o.val ELSE from_ymd_opt(year, month, 1).val

\* while month <= 0 { month += 12; year -= 1; }
RECURSIVE roll_back(_, _)
roll_back(year, month) ==
    IF month <= 0 THEN roll_back(year - 1, month + 12) ELSE [year |-> year, month |-> month]

subtract_months(date, months) ==
    LET r == roll_back(date.y, date.m - months)
        day == Min(date.d, days_in_month(r.year, r.month))
    IN  ymd_or_first(r.year, r.month, day)

subtract_years(date, years) ==
    LET year == date.y - years
        day == Min(date.d, days_in_month(year, date.m))
    IN  ymd_or_first(year, date.m, day)

\* let cutoff = match range { .. }, for a range other than All
cutoff_of(range, today_date) ==
    CASE range = "OneMonth" -> subtract_months(today_date, 1)
      [] range = "SixMonths" -> subtract_months(today_date, 6)
      [] range = "OneYear" -> subtract_years(today_date, 1)
      [] range = "FiveYears" -> subtract_years(today_date, 5)

str_ge(a, b) == str_cmp(a, b) /= "Less"
str_gt(a, b) == str_cmp(a, b) = "Greater"

filter_by_range_exclusive(snapshots, range, today) ==
    IF range = "All" THEN snapshots
    ELSE LET today_date == parse_from_str(today)
         IN  IF ~today_date.some THEN snapshots
             ELSE LET cutoff_str == format_ymd(cutoff_of(range, today_date.val))
                      keep(s) == str_gt(s.date, cutoff_str)
                  IN  SelectSeq(snapshots, keep)

filter_by_range_strict_anchor(snapshots, range, today) ==
    LET today_date == parse_from_str(today)
    IN  IF ~today_date.some THEN <<>>
        ELSE IF range = "All" THEN snapshots
        ELSE LET cutoff_str == format_ymd(cutoff_of(range, today_date.val))
                 keep(s) == str_ge(s.date, cutoff_str)
             IN  SelectSeq(snapshots, keep)

filter_by_range(snapshots, range, today) ==
    IF range = "All" THEN snapshots
    ELSE LET today_date == parse_from_str(today)
         IN  IF ~today_date.some THEN snapshots
             ELSE LET cutoff_str == format_ymd(cutoff_of(range, today_date.val))
                      keep(s) == str_ge(s.date, cutoff_str)
                  IN  SelectSeq(snapshots, keep)

\* the locals cutoff and cutoff_str of a call, None when the call returns before them
cutoff_locals(range, today) ==
    IF range = "All" THEN None
    ELSE LET today_date == parse_from_str(today)
         IN  IF ~today_date.some THEN None
             ELSE Some([cutoff |-> cutoff_of(range, today_date.val),
                        cutoff_str |-> format_ymd(cutoff_of(range, today_date.val))])

-----------------------------------------------------------------------------
(* SpecRange: filter_by_range on every drawn snapshot list, range and today *)

FirstYear == 2003
NumYears == 3
CenturyYear == 2100
MaxSnaps == 2

RangeYears == (FirstYear..(FirstYear + NumYears - 1)) \cup {CenturyYear}

\* today as handle_history passes it: a date of the calendar, formatted
CalendarDates == {dt \in [y : RangeYears, m : 1..12, d : 1..31] :
                      from_ymd_opt(dt.y, dt.m, dt.d).some}
ValidTodays == {format_ymd(dt) : dt \in CalendarDates}

Unpadded(y, m, d) == NatStr(y) \o <<Dash>> \o NatStr(m) \o <<Dash>> \o NatStr(d)

\* other strings: "2004-3-31" (parses), "2004-02-30" and "2004-13-01" (no such
\* date), "" and "x" (no date at all)
OddTodays == {Unpadded(2004, 3, 31), format_ymd(Ymd(2004, 2, 30)),
              format_ymd(Ymd(2004, 13, 1)), <<>>, <<120>>}

\* compute.rs tests: make_snapshot
make_snapshot(date) == Snapshot(date, EmptyMap, <<>>)

RangeSnapDates == {format_ymd(Ymd(2004, 2, 28)), format_ymd(Ymd(2004, 2, 29)),
                   Unpadded(2004, 3, 1)}
RangeSnapshots == {make_snapshot(d) : d \in RangeSnapDates}

InitRange ==
    /\ Idle
    /\ pc = "call"
    /\ ret = NotCalled
    /\ args \in [snapshots : SeqsUpTo(RangeSnapshots, MaxSnaps),
                 range : HistoryRanges,
                 today : ValidTodays \cup OddTodays]

CallFilterByRange ==
    /\ pc = "call"
    /\ pc' = "return"
    /\ ret' = Returned(filter_by_range(args.snapshots, args.range, args.today))
    /\ out' = cutoff_locals(args.range, args.today)
    /\ UNCHANGED <<file, tmp, dir, portfolio, args>>

NextRange == CallFilterByRange

SpecRange == InitRange /\ [][NextRange]_vars

\* stated apart from the code: lexicographic order by the first differing byte
LexGeq(a, b) ==
    \/ \E k \in 1..Len(a) :
          /\ \A j \in 1..(k - 1) : j <= Len(b) /\ a[j] = b[j]
          /\ (k > Len(b) \/ a[k] > b[k])
    \/ a = b

\* C7: for a range other than All and a parseable today, the result is exactly
\* the snapshots whose date string is lexicographically >= the cutoff string, in
\* their original relative order (a snapshot dated on the cutoff is kept).
C7_FilterKeepsDatesFromCutoff ==
    (ret.called /\ out.some) =>
        LET onOrAfter(s) == LexGeq(s.date, out.val.cutoff_str)
        IN  ret.val = SelectSeq(args.snapshots, onOrAfter)

\* a call whose cutoff is 2004-02-29: the snapshot of that date is kept and the
\* one dated the day before is dropped
C7_Witness ==
    /\ ret.called
    /\ out.some
    /\ out.val.cutoff_str = format_ymd(Ymd(2004, 2, 29))
    /\ args.snapshots = <<make_snapshot(format_ymd(Ymd(2004, 2, 28))),
                          make_snapshot(format_ymd(Ymd(2004, 2, 29)))>>
    /\ ret.val = <<make_snapshot(format_ymd(Ymd(2004, 2, 29)))>>

\* stated apart from the code: the Gregorian month lengths and the reading of a
\* zero-padded YYYY-MM-DD string
GregorianLeap(y) == y % 400 = 0 \/ (y % 4 = 0 /\ y % 100 /= 0)
GregorianDays(y, m) ==
    IF m = 2 /\ GregorianLeap(y) THEN 29
    ELSE <<31, 28, 31, 30, 31, 30, 31, 31, 30, 31, 30, 31>>[m]
TwoDigits(s, i) == 10 * (s[i] - Zero) + (s[i + 1] - Zero)
ReadIso(s) == Ymd(100 * TwoDigits(s, 1) + TwoDigits(s, 3), TwoDigits(s, 6), TwoDigits(s, 9))
IsCalendarDate(dt) == dt.m \in 1..12 /\ dt.d \in 1..GregorianDays(dt.y, dt.m)

MonthsOf(range) == IF range = "OneMonth" THEN 1 ELSE IF range = "SixMonths" THEN 6 ELSE 0
YearsOf(range) == IF range = "OneYear" THEN 1 ELSE IF range = "FiveYears" THEN 5 ELSE 0

\* C8: for a valid calendar date today and a range other than All, the cutoff is
\* a valid calendar date: year and month are today's minus the range's months
\* (the year rolled back when the month drops below 1) or years, and the day is
\* min(today's day, length of the destination month in the destination year).
C8_CutoffIsClampedCalendarDate ==
    (ret.called /\ args.range /= "All" /\ args.today \in ValidTodays) =>
        LET t == ReadIso(args.today)
            months == (12 * t.y + (t.m - 1)) - MonthsOf(args.range)
            ey == (months \div 12) - YearsOf(args.range)
            em == (months % 12) + 1
            ed == IF t.d <= GregorianDays(ey, em) THEN t.d ELSE GregorianDays(ey, em)
        IN  /\ out.some
            /\ out.val.cutoff = Ymd(ey, em, ed)
            /\ IsCalendarDate(out.val.cutoff)
            /\ out.val.cutoff_str = format_ymd(Ymd(ey, em, ed))

\* one month before March 31 of a leap year: the cutoff is February 29
C8_Witness ==
    /\ ret.called
    /\ args.today = format_ymd(Ymd(2004, 3, 31))
    /\ args.range = "OneMonth"
    /\ out = Some([cutoff |-> Ymd(2004, 2, 29), cutoff_str |-> format_ymd(Ymd(2004, 2, 29))])

\* C9: with range All (whatever today is) and with any other range when today
\* does not parse as a date, every snapshot is returned, unchanged and in the
\* original order; the call does not fail.
C9_AllOrUnparseableReturnsEverything ==
    (ret.called /\ (args.range = "All" \/ ~parse_from_str(args.today).some)) =>
        ret.val = args.snapshots

\* a call with range OneMonth and the anchor "2004-02-30", which is no date, on
\* two snapshots in descending order
C9_Witness ==
    /\ ret.called
    /\ args.range = "OneMonth"
    /\ args.today = format_ymd(Ymd(2004, 2, 30))
    /\ Len(args.snapshots) = 2
    /\ str_gt(args.snapshots[1].date, args.snapshots[2].date)
    /\ ret.val = args.snapshots

-----------------------------------------------------------------------------
(* compute::compute_history_rows *)

HistoryRow(date, total_usd, change_usd, change_pct) ==
    [date |-> date, total_usd |-> total_usd, change_usd |-> change_usd,
     change_pct |-> change_pct]

compute_change_zero_prev_full(prev, current) ==
    LET change_usd == RatSub(current, prev)
        change_pct == IF prev = F(0) THEN F(100)
                      ELSE RatMul(RatDiv(change_usd, prev), F(100))
    IN  <<change_usd, change_pct>>

compute_change(prev, current) ==
    LET change_usd == RatSub(current, prev)
        change_pct == IF prev = F(0) THEN F(0)
                      ELSE RatMul(RatDiv(change_usd, prev), F(100))
    IN  <<change_usd, change_pct>>

snapshot_total_usd_zero_on_error(snapshot, p) ==
    LET r == compute_show_rows(snapshot, p, None)
    IN  IF r.ok THEN Ok(r.val.total) ELSE Ok(F(0))

snapshot_total_usd(snapshot, p) ==
    LET r == compute_show_rows(snapshot, p, None)
    IN  IF r.ok THEN Ok(r.val.total) ELSE Err(r.err)

\* the for loop over the supplied snapshots from snapshot i on
RECURSIVE history_loop_prev_kept(_, _, _, _, _)
history_loop_prev_kept(snapshots, i, p, prev_total, rows) ==
    IF i > Len(snapshots) THEN Ok(rows)
    ELSE LET t == snapshot_total_usd(snapshots[i], p)
         IN  IF ~t.ok THEN Err(t.err)
             ELSE LET ch == IF prev_total.some
                            THEN compute_change(prev_total.val, t.val) ELSE <<>>
                      row == IF prev_total.some
                             THEN HistoryRow(snapshots[i].date, t.val, Some(ch[1]), Some(ch[2]))
                             ELSE HistoryRow(snapshots[i].date, t.val, None, None)
                  IN  history_loop_prev_kept(snapshots, i + 1, p,
                                             IF prev_total.some THEN prev_total ELSE Some(t.val),
                                             Append(rows, row))

RECURSIVE history_loop(_, _, _, _, _)
history_loop(snapshots, i, p, prev_total, rows) ==
    IF i > Len(snapshots) THEN Ok(rows)
    ELSE LET t == snapshot_total_usd(snapshots[i], p)
         IN  IF ~t.ok THEN Err(t.err)
             ELSE LET ch == IF prev_total.some
                            THEN compute_change(prev_total.val, t.val) ELSE <<>>
                      row == IF prev_total.some
                             THEN HistoryRow(snapshots[i].date, t.val, Some(ch[1]), Some(ch[2]))
                             ELSE HistoryRow(snapshots[i].date, t.val, None, None)
                  IN  history_loop(snapshots, i + 1, p, Some(t.val), Append(rows, row))

compute_history_rows(snapshots, p) == history_loop(snapshots, 1, p, None, <<>>)

-----------------------------------------------------------------------------
(* SpecHistory: compute_history_rows on every drawn snapshot list and asset    *)
(* list; the portfolio may hold one earlier snapshot that is not supplied      *)

MaxHistSnaps == 3

\* asset lists of one category (no filter is involved)
HistAssetLists == {s \in AssetLists : \A i \in DOMAIN s : s[i].category = "etf"}

\* a snapshot holds an entry, or none, for each asset id, in asset order
HistAllEntries == <<SnapshotEntry("a", F(100)), SnapshotEntry("b", F(30))>>
HistEntryLists ==
    {LET has(e) == e.asset_id \in S IN SelectSeq(HistAllEntries, has) : S \in SUBSET AssetIds}
HistRateTables == RateTables(Currencies \ {"USD"}, {F(2)})

\* ascending dates, by position
HistDate(i) == format_ymd(Ymd(2024, i, 1))
HistSnapshotLists ==
    UNION {{[i \in 1..k |-> Snapshot(HistDate(i), c[i].rates, c[i].entries)] :
                c \in [1..k -> [rates : HistRateTables, entries : HistEntryLists]]} :
           k \in 0..MaxHistSnaps}

\* a snapshot of the portfolio dated before the supplied ones
EarlierSnapshot == Snapshot(format_ymd(Ymd(2023, 12, 1)), EmptyMap,
                            <<SnapshotEntry("a", F(7))>>)

InitHistory ==
    /\ Idle
    /\ pc = "call"
    /\ ret = NotCalled
    /\ \E assets \in HistAssetLists, supplied \in HistSnapshotLists,
          excluded \in {<<>>, <<EarlierSnapshot>>} :
            args = [snapshots |-> supplied,
                    portfolio |-> Portfolio(assets, excluded \o supplied)]

CallComputeHistoryRows == Call(compute_history_rows(args.snapshots, args.portfolio))

NextHistory == CallComputeHistoryRows

SpecHistory == InitHistory /\ [][NextHistory]_vars

\* stated on the arguments alone
HistAssets == args.portfolio.assets
HistResolves(e) == \E i \in DOMAIN HistAssets : HistAssets[i].id = e.asset_id
HistAsset(e) == HistAssets[CHOOSE i \in DOMAIN HistAssets : HistAssets[i].id = e.asset_id]
\* the snapshot has an entry of a non-USD asset whose currency has no rate
LacksRate(snap) ==
    \E i \in DOMAIN snap.entries :
        /\ HistResolves(snap.entries[i])
        /\ HistAsset(snap.entries[i]).currency /= "USD"
        /\ HistAsset(snap.entries[i]).currency \notin DOMAIN snap.rates
HistUsd(snap, e) ==
    IF HistAsset(e).currency = "USD" THEN e.value
    ELSE RatDiv(e.value, snap.rates[HistAsset(e).currency])
HistTotal(snap) ==
    LET resolving == SelectSeq(snap.entries, HistResolves)
    IN  RatSum([k \in DOMAIN resolving |-> HistUsd(snap, resolving[k])])

\* C6: when any supplied snapshot has an entry resolving to a non-USD asset with
\* no rate in that snapshot, the call fails with RateMissing and returns no rows
\* (no partial list, no row counting that asset as zero).
C6_MissingRateAbortsHistory ==
    (ret.called /\ \E k \in DOMAIN args.snapshots : LacksRate(args.snapshots[k])) =>
        /\ ~ret.val.ok
        /\ ret.val.err[1] = "RateMissing"
        /\ ret.val.err[2] /= "USD"
        /\ DOMAIN ret.val = {"ok", "err"}

\* a failed call whose first two snapshots are valued without trouble and whose
\* third lacks the rate
C6_Witness ==
    /\ ret.called
    /\ ~ret.val.ok
    /\ Len(args.snapshots) = 3
    /\ ~LacksRate(args.snapshots[1])
    /\ ~LacksRate(args.snapshots[2])
    /\ LacksRate(args.snapshots[3])

\* C10: on success there is one row per supplied snapshot, in order, with that
\* snapshot's date and total; the first row has no change fields; every later
\* row has both, computed against the total of the supplied snapshot just
\* before it.
C10_HistoryRowsFollowSuppliedSnapshots ==
    (ret.called /\ ret.val.ok) =>
        LET rows == ret.val.val
        IN  /\ Len(rows) = Len(args.snapshots)
            /\ \A k \in DOMAIN rows :
                  /\ rows[k].date = args.snapshots[k].date
                  /\ rows[k].total_usd = HistTotal(args.snapshots[k])
                  /\ k = 1 => (rows[k].change_usd = None /\ rows[k].change_pct = None)
                  /\ k > 1 =>
                      LET prev == HistTotal(args.snapshots[k - 1])
                          diff == RatSub(rows[k].total_usd, prev)
                      IN  /\ rows[k].change_usd = Some(diff)
                          /\ rows[k].change_pct =
                                Some(IF prev.n = 0 THEN F(0)
                                     ELSE Rat(100 * diff.n * prev.d, diff.d * prev.n))

\* three rows with three different totals, the portfolio holding an earlier
\* snapshot that was not supplied
C10_Witness ==
    /\ ret.called
    /\ ret.val.ok
    /\ Len(ret.val.val) = 3
    /\ Len(args.portfolio.snapshots) = 4
    /\ ret.val.val[1].total_usd /= F(0)
    /\ ret.val.val[1].change_usd = None
    /\ ret.val.val[2].total_usd /= ret.val.val[1].total_usd
    /\ ret.val.val[3].change_usd /=
          Some(RatSub(ret.val.val[3].total_usd, ret.val.val[1].total_usd))

-----------------------------------------------------------------------------
(* store.rs: the portfolio file *)

\* what a path holds: nothing, or the text of a document, complete or cut short
\* (a write that was started and not finished)
Written(doc) == [present |-> TRUE, complete |-> TRUE, doc |-> doc]
Partial(doc) == [present |-> TRUE, complete |-> FALSE, doc |-> doc]

\* the members of a JSON object written from a HashMap, in the map's iteration
\* order (some order of its keys)
RECURSIVE map_members(_)
map_members(m) ==
    IF DOMAIN m = {} THEN <<>>
    ELSE LET k == CHOOSE k \in DOMAIN m : TRUE
         IN  <<[key |-> k, val |-> m[k]]>> \o map_members([j \in DOMAIN m \ {k} |-> m[j]])

\* a HashMap read from the members of a JSON object: a later member with the
\* same key replaces an earlier one
members_map(ms) ==
    LET keys == {ms[i].key : i \in DOMAIN ms}
        last(k) == CHOOSE i \in DOMAIN ms :
                       ms[i].key = k /\ \A j \in DOMAIN ms : ms[j].key = k => j <= i
    IN  [k \in keys |-> ms[last(k)].val]

\* serde_json::to_string_pretty(portfolio): the document, arrays in sequence order
to_string_pretty(p) ==
    [assets |-> p.assets,
     snapshots |-> [i \in DOMAIN p.snapshots |->
                       [date |-> p.snapshots[i].date,
                        rates |-> map_members(p.snapshots[i].rates),
                        entries |-> p.snapshots[i].entries]]]

\* serde_json::from_str(&contents)
from_str(doc) ==
    Portfolio(doc.assets,
              [i \in DOMAIN doc.snapshots |->
                  Snapshot(doc.snapshots[i].date, members_map(doc.snapshots[i].rates),
                           doc.snapshots[i].entries)])

\* load_portfolio, the path resolved and the file readable
load_portfolio(f) == IF ~f.present THEN DefaultPortfolio ELSE from_str(f.doc)

RECURSIVE insert_by_date_descending(_, _)
insert_by_date_descending(sorted, s) ==
    IF sorted = <<>> THEN <<s>>
    ELSE IF str_cmp(sorted[Len(sorted)].date, s.date) = "Less"
         THEN Append(insert_by_date_descending(SubSeq(sorted, 1, Len(sorted) - 1), s),
                     sorted[Len(sorted)])
         ELSE Append(sorted, s)

\* portfolio.snapshots.sort_by(|a, b| a.date.cmp(&b.date)): a stable sort
RECURSIVE insert_by_date(_, _)
insert_by_date(sorted, s) ==
    IF sorted = <<>> THEN <<s>>
    ELSE IF str_cmp(sorted[Len(sorted)].date, s.date) = "Greater"
         THEN Append(insert_by_date(SubSeq(sorted, 1, Len(sorted) - 1), s), sorted[Len(sorted)])
         ELSE Append(sorted, s)

RECURSIVE sort_by_date_from(_, _, _)
sort_by_date_from(snaps, i, sorted) ==
    IF i > Len(snaps) THEN sorted
    ELSE sort_by_date_from(snaps, i + 1, insert_by_date(sorted, snaps[i]))

sort_skipped(snaps) == snaps

sort_by_date(snaps) == sort_by_date_from(snaps, 1, <<>>)

\* the two paths save_portfolio writes
final_path == "portfolio.json"

tmp_path_is_final == "portfolio.json"

tmp_path == "portfolio.json.tmp"

-----------------------------------------------------------------------------
(* SpecSave: one call of save_portfolio, one file-system operation at a time.  *)
(* Any operation may fail, and the process may die between any two.  pc:       *)
(* "save" (called), "mkdir", "write" (before fs::write), "writing" (the temp   *)
(* file created, its text not yet complete), "rename", and the ends "ok",      *)
(* "err" and "crashed".                                                        *)

SaveDates == {format_ymd(Ymd(2024, 1, 10)), Unpadded(2024, 1, 5)}
SaveSnapshots == {make_snapshot(d) : d \in SaveDates}
SaveAssetLists == {<<>>, <<Asset("a", "Fund", "etf", "USD")>>}
\* in memory the snapshots may be in any order: snapshot add pushes at the end
SavePortfolios == {Portfolio(a, sn) : a \in SaveAssetLists,
                                      sn \in SeqsUpTo(SaveSnapshots, MaxSnaps)}
\* what an earlier run left: no file, or a saved document
SavedFiles == {Absent} \cup
              {Written(to_string_pretty(Portfolio(q.assets, sort_by_date(q.snapshots)))) :
                   q \in SavePortfolios}
\* the temp file of an earlier run that died or failed: none, one cut short, a whole one
StaleTmp == [present |-> TRUE, complete |-> FALSE, doc |-> to_string_pretty(DefaultPortfolio)]
LeftTmp == {Absent, StaleTmp, Written(to_string_pretty(DefaultPortfolio))}

InitSave ==
    /\ file \in SavedFiles
    /\ tmp \in LeftTmp
    /\ dir \in BOOLEAN
    /\ (file.present \/ tmp.present) => dir
    /\ portfolio \in SavePortfolios
    /\ pc = "save"
    /\ out = None
    /\ args = [file |-> file, portfolio |-> portfolio]
    /\ ret = NotCalled

PathGet(path) == IF path = final_path THEN file ELSE tmp
PathPut(path, content) ==
    IF path = final_path THEN file' = content /\ UNCHANGED tmp
    ELSE tmp' = content /\ UNCHANGED file

WriteFileErr(path) == Err(<<"WriteFile", path>>)

\* portfolio_path() fails: no XDG_CONFIG_HOME and no HOME
SaveNoConfigDir ==
    /\ pc = "save"
    /\ pc' = "err"
    /\ ret' = Returned(Err(<<"NoConfigDir">>))
    /\ UNCHANGED <<file, tmp, dir, portfolio, out, args>>

SaveSort ==
    /\ pc = "save"
    /\ pc' = "mkdir"
    /\ portfolio' = Portfolio(portfolio.assets, sort_by_date(portfolio.snapshots))
    /\ UNCHANGED <<file, tmp, dir, out, args, ret>>

SaveCreateDir ==
    /\ pc = "mkdir"
    /\ \/ /\ dir' = TRUE
          /\ pc' = "write"
          /\ UNCHANGED ret
       \/ /\ ~dir
          /\ UNCHANGED dir
          /\ pc' = "err"
          /\ ret' = Returned(WriteFileErr("nw-tracker"))
    /\ UNCHANGED <<file, tmp, portfolio, out, args>>

\* fs::write(&tmp_path, &contents): the file is created or truncated, then filled
SaveWriteStart ==
    /\ pc = "write"
    /\ \/ /\ PathPut(tmp_path, Partial(to_string_pretty(portfolio)))
          /\ pc' = "writing"
          /\ UNCHANGED ret
       \/ /\ UNCHANGED <<file, tmp>>
          /\ pc' = "err"
          /\ ret' = Returned(WriteFileErr(tmp_path))
    /\ UNCHANGED <<dir, portfolio, out, args>>

SaveWriteFinish ==
    /\ pc = "writing"
    /\ \/ /\ PathPut(tmp_path, Written(to_string_pretty(portfolio)))
          /\ pc' = "rename"
          /\ UNCHANGED ret
       \/ /\ UNCHANGED <<file, tmp>>
          /\ pc' = "err"
          /\ ret' = Returned(WriteFileErr(tmp_path))
    /\ UNCHANGED <<dir, portfolio, out, args>>

\* fs::rename(&tmp_path, &path): the final path takes over the temp file, whole
SaveRename ==
    /\ pc = "rename"
    /\ \/ /\ IF tmp_path = final_path THEN UNCHANGED <<file, tmp>>
             ELSE file' = PathGet(tmp_path) /\ tmp' = Absent
          /\ pc' = "ok"
          /\ ret' = Returned(Ok(<<>>))
       \/ /\ UNCHANGED <<file, tmp>>
          /\ pc' = "err"
          /\ ret' = Returned(WriteFileErr(final_path))
    /\ UNCHANGED <<dir, portfolio, out, args>>

\* the process dies (power loss, kill) between two operations
SaveCrash ==
    /\ pc \in {"save", "mkdir", "write", "writing", "rename"}
    /\ pc' = "crashed"
    /\ UNCHANGED <<file, tmp, dir, portfolio, out, args, ret>>

NextSave ==
    \/ SaveNoConfigDir
    \/ SaveSort
    \/ SaveCreateDir
    \/ SaveWriteStart
    \/ SaveWriteFinish
    \/ SaveRename
    \/ SaveCrash

SpecSave == InitSave /\ [][NextSave]_vars

\* C2: during save_portfolio the final path is never partially written: in every
\* state of the save, a failure or crash included, it holds what it held before
\* (args.file, or nothing), and it holds the complete new document only once
\* the rename has succeeded.
C2_FinalPathNeverPartial ==
    /\ file.present => file.complete
    /\ pc /= "ok" => file = args.file
    /\ pc = "ok" =>
          file = Written(to_string_pretty(
                            Portfolio(args.portfolio.assets,
                                      sort_by_date(args.portfolio.snapshots))))

\* the process died after the temp file was created and before it was whole,
\* the final path holding an earlier document that differs from the new one
C2_Witness ==
    /\ pc = "crashed"
    /\ tmp.present
    /\ ~tmp.complete
    /\ tmp.doc = to_string_pretty(portfolio)
    /\ file.present
    /\ file.doc /= tmp.doc

-----------------------------------------------------------------------------
(* compute_allocation *)

\* HashMap::iter(): the (key, value) pairs of the map, in some order of its keys
map_iter(m) ==
    {[i \in DOMAIN o |-> <<o[i], m[o[i]]>>] :
        o \in {o \in [1..Cardinality(DOMAIN m) -> DOMAIN m] :
                  \A i, j \in DOMAIN o : i /= j => o[i] /= o[j]}}

RECURSIVE insert_by_pct_ascending(_, _)
insert_by_pct_ascending(sorted, x) ==
    IF sorted = <<>> THEN <<x>>
    ELSE IF ~RatLeq(sorted[Len(sorted)][2], x[2])
         THEN Append(insert_by_pct_ascending(SubSeq(sorted, 1, Len(sorted) - 1), x),
                     sorted[Len(sorted)])
         ELSE Append(sorted, x)

\* result.sort_by(|a, b| b.1.partial_cmp(&a.1)...): a stable sort, greatest first
RECURSIVE insert_by_pct(_, _)
insert_by_pct(sorted, x) ==
    IF sorted = <<>> THEN <<x>>
    ELSE IF ~RatLeq(x[2], sorted[Len(sorted)][2])
         THEN Append(insert_by_pct(SubSeq(sorted, 1, Len(sorted) - 1), x),
                     sorted[Len(sorted)])
         ELSE Append(sorted, x)

RECURSIVE sort_by_pct(_)
sort_by_pct(result) ==
    IF result = <<>> THEN <<>>
    ELSE insert_by_pct(sort_by_pct(SubSeq(result, 1, Len(result) - 1)), result[Len(result)])

\* compute_allocation(&category_totals, grand_total); totals is category_totals
\* as its iter() yields it
compute_allocation(totals, grand_total) ==
    IF grand_total = F(0) THEN <<>>
    ELSE sort_by_pct([i \in DOMAIN totals |->
                         <<totals[i][1],
                           RatMul(RatDiv(totals[i][2], grand_total), F(100))>>])

\* handle_show: category_totals.entry(row.category).or_insert(0.0) += row.usd_value
category_totals(rows) ==
    LET of(c) == SelectSeq(rows, LAMBDA r : r.category = c)
    IN  [c \in {rows[i].category : i \in DOMAIN rows} |->
            RatSum([i \in DOMAIN of(c) |-> of(c)[i].usd_value])]

-----------------------------------------------------------------------------

(* Strings given on the command line or typed at a prompt: their bytes *)

KnownStrings ==
    {"USD", "usd", "EUR", "eur", "Etf", "etf", "1m", "1M", "6M", "1Y", "5Y", "all",
     "ALL", "week", "WEEK", "Y\n", "Y", "y", "n\n", "n", ""}

Spell(s) ==
    CASE s = "USD" -> <<85, 83, 68>>
      [] s = "usd" -> <<117, 115, 100>>
      [] s = "EUR" -> <<69, 85, 82>>
      [] s = "eur" -> <<101, 117, 114>>
      [] s = "Etf" -> <<69, 116, 102>>
      [] s = "etf" -> <<101, 116, 102>>
      [] s = "1m" -> <<49, 109>>
      [] s = "1M" -> <<49, 77>>
      [] s = "6M" -> <<54, 77>>
      [] s = "1Y" -> <<49, 89>>
      [] s = "5Y" -> <<53, 89>>
      [] s = "all" -> <<97, 108, 108>>
      [] s = "ALL" -> <<65, 76, 76>>
      [] s = "week" -> <<119, 101, 101, 107>>
      [] s = "WEEK" -> <<87, 69, 69, 75>>
      [] s = "Y\n" -> <<89, 10>>
      [] s = "Y" -> <<89>>
      [] s = "y" -> <<121>>
      [] s = "n\n" -> <<110, 10>>
      [] s = "n" -> <<110>>
      [] s = "" -> <<>>

Text(bytes) == CHOOSE s \in KnownStrings : Spell(s) = bytes

\* str::to_uppercase, str::to_lowercase and str::trim on ASCII text
to_uppercase(s) ==
    Text([i \in DOMAIN Spell(s) |->
             IF Spell(s)[i] \in 97..122 THEN Spell(s)[i] - 32 ELSE Spell(s)[i]])
to_lowercase_kept(s) == s
to_lowercase(s) ==
    Text([i \in DOMAIN Spell(s) |->
             IF Spell(s)[i] \in 65..90 THEN Spell(s)[i] + 32 ELSE Spell(s)[i]])
IsWhite(c) == c \in {9, 10, 13, 32}
RECURSIVE trim_bytes(_)
trim_bytes(b) ==
    IF b = <<>> THEN b
    ELSE IF IsWhite(b[1]) THEN trim_bytes(Tail(b))
    ELSE IF IsWhite(b[Len(b)]) THEN trim_bytes(SubSeq(b, 1, Len(b) - 1))
    ELSE b
trim(s) == Text(trim_bytes(Spell(s)))

confirm_always(input) == TRUE

\* prompt::confirm, given the line read ("" when reading fails)
confirm(input) == to_lowercase(trim(input)) \in {"y", "yes"}

\* HistoryRange::from_str
range_from_str(s) ==
    LET u == to_uppercase(s)
    IN  CASE u = "1M" -> Ok("OneMonth")
          [] u = "6M" -> Ok("SixMonths")
          [] u = "1Y" -> Ok("OneYear")
          [] u = "5Y" -> Ok("FiveYears")
          [] u = "ALL" -> Ok("All")
          [] OTHER -> Err(<<"InvalidHistoryRange", s>>)

\* main::validate_date
validate_date(date) ==
    IF parse_from_str(date).some THEN Ok(<<>>) ELSE Err(<<"InvalidDate", date>>)

\* main::collect_non_usd_currencies: the distinct non-USD currencies, sorted
RECURSIVE collect_from(_, _, _)
collect_from(assets, i, currencies) ==
    IF i > Len(assets) THEN currencies
    ELSE IF assets[i].currency /= "USD"
            /\ \A k \in DOMAIN currencies : currencies[k] /= assets[i].currency
         THEN collect_from(assets, i + 1, Append(currencies, assets[i].currency))
         ELSE collect_from(assets, i + 1, currencies)

RECURSIVE insert_string(_, _)
insert_string(sorted, c) ==
    IF sorted = <<>> THEN <<c>>
    ELSE IF str_cmp(Spell(sorted[Len(sorted)]), Spell(c)) = "Greater"
         THEN Append(insert_string(SubSeq(sorted, 1, Len(sorted) - 1), c), sorted[Len(sorted)])
         ELSE Append(sorted, c)

RECURSIVE sort_strings(_)
sort_strings(cs) ==
    IF cs = <<>> THEN <<>>
    ELSE insert_string(sort_strings(SubSeq(cs, 1, Len(cs) - 1)), cs[Len(cs)])

collect_non_usd_currencies(p) == sort_strings(collect_from(p.assets, 1, <<>>))

-----------------------------------------------------------------------------
(* prompt.rs: what the prompts can return *)

Range(f) == {f[x] : x \in DOMAIN f}

PromptRates_existing_kept(currencies, existing_rates, typed) ==
    IF "USD" \in Range(currencies) THEN {Err(<<"UsdRateRejected">>)}
    ELSE {Ok([c \in Range(currencies) \cup DOMAIN existing_rates |->
                 IF c \in Range(currencies) THEN r[c] ELSE existing_rates[c]]) :
             r \in {r \in [Range(currencies) -> typed \cup Range(existing_rates)] :
                       \A c \in Range(currencies) :
                           r[c] \in typed \/ (c \in DOMAIN existing_rates
                                              /\ r[c] = existing_rates[c])}}

\* prompt_rates when every line is read: for each currency a typed positive rate,
\* or on Enter the existing one; UsdRateRejected if USD is among the currencies
PromptRates(currencies, existing_rates, typed) ==
    IF "USD" \in Range(currencies) THEN {Err(<<"UsdRateRejected">>)}
    ELSE {Ok(r) : r \in {r \in [Range(currencies) -> typed \cup Range(existing_rates)] :
                            \A c \in Range(currencies) :
                                r[c] \in typed \/ (c \in DOMAIN existing_rates
                                                   /\ r[c] = existing_rates[c])}}

\* the entries of the answers: answers[i] is None (asset i omitted) or Some(value)
RECURSIVE entries_of(_, _, _)
entries_of(assets, answers, i) ==
    IF i > Len(assets) THEN <<>>
    ELSE (IF answers[i].some THEN <<SnapshotEntry(assets[i].id, answers[i].val)>> ELSE <<>>)
         \o entries_of(assets, answers, i + 1)

\* prompt_asset_values when every line is read: per asset, in asset order, a typed
\* value >= 0; on Enter the existing value, or no entry when there is none
PromptAssetValues(assets, existing_entries, typed) ==
    {entries_of(assets, answers, 1) :
        answers \in {a \in [DOMAIN assets -> {None} \cup {Some(v) : v \in typed \cup Range(existing_entries)}] :
                        \A i \in DOMAIN assets :
                            IF a[i].some
                            THEN a[i].val \in typed
                                 \/ (assets[i].id \in DOMAIN existing_entries
                                     /\ a[i].val = existing_entries[assets[i].id])
                            ELSE assets[i].id \notin DOMAIN existing_entries}}

\* existing.entries.iter().map(|e| (e.asset_id.clone(), e.value)).collect()
existing_map(entries) ==
    LET ids == {entries[i].asset_id : i \in DOMAIN entries}
        last(id) == CHOOSE i \in DOMAIN entries :
                        entries[i].asset_id = id
                        /\ \A j \in DOMAIN entries : entries[j].asset_id = id => j <= i
    IN  [id \in ids |-> entries[last(id)].value]

-----------------------------------------------------------------------------
(* Spec: the program, one process invocation after another.  pc: "idle" (no    *)
(* process), "loaded" (main has loaded the portfolio), "done" (the command has *)
(* returned; out holds what it did).  A command is one step: what it changes   *)
(* in memory, the sort and the write of save_portfolio included.  The save     *)
(* either replaces the final path or fails leaving it as it was (SpecSave);    *)
(* of the temp file Spec keeps only whether one is left behind.               *)

CategoryInputs == {"Etf"}
CurrencyInputs == {"usd", "EUR"}
DateInputs == {format_ymd(Ymd(2024, 1, 10)), Unpadded(2024, 1, 5),
               format_ymd(Ymd(2024, 2, 30))}
TypedRates == {F(2)}
TypedValues == {F(100)}
Answers == {"Y\n", "n\n", ""}
RangeTokens == {"1m", "6M", "1Y", "5Y", "all", "week"}
Todays == {format_ymd(Ymd(2024, 1, 20)), format_ymd(Ymd(2024, 2, 8))}

OptionOf(S) == {None} \cup {Some(x) : x \in S}

Init ==
    /\ file = Absent
    /\ tmp = Absent
    /\ dir = FALSE
    /\ portfolio = DefaultPortfolio
    /\ pc = "idle"
    /\ out = None
    /\ args = None
    /\ ret = NotCalled

\* what a command did: its name and input, its result, and how many times it
\* replaced the final path
Did(cmd, input, res, writes) ==
    Some([cmd |-> cmd, input |-> input, res |-> res, writes |-> writes])

\* main: store::load_portfolio()?
Load ==
    /\ pc = "idle"
    /\ pc' = "loaded"
    /\ portfolio' = load_portfolio(file)
    /\ UNCHANGED <<file, tmp, dir, out, args, ret>>

\* main: load_portfolio fails (no config directory, or the file cannot be read)
LoadFails ==
    /\ pc = "idle"
    /\ pc' = "done"
    /\ \E e \in {<<"NoConfigDir">>} \cup (IF file.present THEN {<<"ReadFile", final_path>>} ELSE {}) :
          out' = Did("load", <<>>, Err(e), 0)
    /\ UNCHANGED <<file, tmp, dir, portfolio, args, ret>>

\* the process ends
Exit ==
    /\ pc = "done"
    /\ pc' = "idle"
    /\ portfolio' = DefaultPortfolio
    /\ out' = None
    /\ UNCHANGED <<file, tmp, dir, args, ret>>

\* a command that returns without calling save_portfolio
Return(cmd, input, res, p) ==
    /\ pc' = "done"
    /\ portfolio' = p
    /\ out' = Did(cmd, input, res, 0)
    /\ UNCHANGED <<file, tmp, dir, args, ret>>

\* store::save_portfolio(portfolio)? and the println! after it.  io is where the
\* save ends: "ok", or the operation that fails.
save_portfolio(cmd, input, p, message) ==
    \E io \in {"ok", "mkdir", "write", "rename"} :
        LET sorted == Portfolio(p.assets, sort_by_date(p.snapshots))
        IN  /\ pc' = "done"
            /\ portfolio' = sorted
            /\ UNCHANGED <<args, ret>>
            /\ CASE io = "ok" ->
                      /\ file' = Written(to_string_pretty(sorted))
                      /\ tmp' = Absent
                      /\ dir' = TRUE
                      /\ out' = Did(cmd, input, Ok(message), 1)
                 [] io = "mkdir" ->
                      /\ ~dir
                      /\ UNCHANGED <<file, tmp, dir>>
                      /\ out' = Did(cmd, input, WriteFileErr("nw-tracker"), 0)
                 [] io = "write" ->
                      /\ tmp' \in {tmp, StaleTmp}
                      /\ dir' = TRUE
                      /\ UNCHANGED file
                      /\ out' = Did(cmd, input, WriteFileErr(tmp_path), 0)
                 [] io = "rename" ->
                      /\ tmp' = StaleTmp
                      /\ dir' = TRUE
                      /\ UNCHANGED file
                      /\ out' = Did(cmd, input, WriteFileErr(final_path), 0)

asset_never_found(p, id) == FALSE

HasAsset(p, id) == \E i \in DOMAIN p.assets : p.assets[i].id = id
snapshot_never_found(p, date) == FALSE

HasSnapshot(p, date) == \E i \in DOMAIN p.snapshots : p.snapshots[i].date = date
\* iter().position(..) and iter().find(..): the first match
FirstAsset(p, id) == CHOOSE i \in DOMAIN p.assets :
                        p.assets[i].id = id /\ \A j \in 1..(i - 1) : p.assets[j].id /= id
FirstSnapshot(p, date) == CHOOSE i \in DOMAIN p.snapshots :
                        p.snapshots[i].date = date
                        /\ \A j \in 1..(i - 1) : p.snapshots[j].date /= date

\* handle_asset, AssetSubcommand::Add
AssetAdd ==
    /\ pc = "loaded"
    /\ \E id \in AssetIds, name \in Names, category \in CategoryInputs,
          currency_in \in CurrencyInputs :
        LET input == [id |-> id, name |-> name, category |-> category, currency |-> currency_in]
            currency == to_uppercase(currency_in)
        IN  IF HasAsset(portfolio, id)
            THEN Return("asset add", input, Err(<<"DuplicateAssetId", id>>), portfolio)
            ELSE save_portfolio("asset add", input,
                    Portfolio(Append(portfolio.assets,
                                     Asset(id, name, to_lowercase(category), currency)),
                              portfolio.snapshots),
                    "Asset added.")

\* handle_asset, AssetSubcommand::Edit
AssetEdit ==
    /\ pc = "loaded"
    /\ \E id \in AssetIds, name \in OptionOf(Names), category \in OptionOf(CategoryInputs),
          currency \in OptionOf(CurrencyInputs) :
        LET input == [id |-> id, name |-> name, category |-> category, currency |-> currency]
        IN  IF ~HasAsset(portfolio, id)
            THEN Return("asset edit", input, Err(<<"AssetNotFound", id>>), portfolio)
            ELSE LET i == FirstAsset(portfolio, id)
                     a == portfolio.assets[i]
                     edited == Asset(a.id,
                                     IF name.some THEN name.val ELSE a.name,
                                     IF category.some THEN to_lowercase(category.val)
                                     ELSE a.category,
                                     IF currency.some THEN to_uppercase(currency.val)
                                     ELSE a.currency)
                     p == Portfolio([portfolio.assets EXCEPT ![i] = edited],
                                    portfolio.snapshots)
                     changed == name.some \/ category.some \/ currency.some
                 IN  IF changed THEN save_portfolio("asset edit", input, p, "Asset updated.")
                     ELSE Return("asset edit", input, Ok("Nothing to update."), p)

retain_and_strip_entries(p, id) ==
    Portfolio(SelectSeq(p.assets, LAMBDA x : x.id /= id),
              [i \in DOMAIN p.snapshots |->
                  Snapshot(p.snapshots[i].date, p.snapshots[i].rates,
                           SelectSeq(p.snapshots[i].entries, LAMBDA e : e.asset_id /= id))])

\* portfolio.assets.retain(|x| x.id != a.id)
retain_other_assets(p, id) ==
    Portfolio(SelectSeq(p.assets, LAMBDA x : x.id /= id), p.snapshots)

\* handle_asset, AssetSubcommand::Remove
AssetRemove ==
    /\ pc = "loaded"
    /\ \E id \in AssetIds, answer \in Answers :
        LET input == [id |-> id, answer |-> answer]
        IN  IF ~HasAsset(portfolio, id)
            THEN Return("asset remove", input, Err(<<"AssetNotFound", id>>), portfolio)
            ELSE IF ~confirm(answer)
            THEN Return("asset remove", input, Ok("Aborted."), portfolio)
            ELSE save_portfolio("asset remove", input,
                    retain_other_assets(portfolio, id), "Asset removed.")

\* handle_asset, AssetSubcommand::List
AssetList ==
    /\ pc = "loaded"
    /\ Return("asset list", <<>>, Ok(portfolio.assets), portfolio)

StdinErr == Err(<<"ReadFile", "stdin">>)

\* handle_snapshot, SnapshotSubcommand::Add
SnapshotAdd ==
    /\ pc = "loaded"
    /\ \E date \in DateInputs :
        LET input == [date |-> date]
            currencies == collect_non_usd_currencies(portfolio)
        IN  IF ~validate_date(date).ok
            THEN Return("snapshot add", input, validate_date(date), portfolio)
            ELSE IF HasSnapshot(portfolio, date)
            THEN Return("snapshot add", input, Err(<<"SnapshotAlreadyExists", date>>), portfolio)
            ELSE \/ /\ currencies /= <<>> \/ portfolio.assets /= <<>>
                    /\ Return("snapshot add", input, StdinErr, portfolio)
                 \/ \E rates \in PromptRates(currencies, EmptyMap, TypedRates) :
                        IF ~rates.ok THEN Return("snapshot add", input, rates, portfolio)
                        ELSE \E entries \in PromptAssetValues(portfolio.assets, EmptyMap,
                                                              TypedValues) :
                                save_portfolio("snapshot add", input,
                                    Portfolio(portfolio.assets,
                                              Append(portfolio.snapshots,
                                                     Snapshot(date, rates.val, entries))),
                                    "Snapshot saved.")

\* handle_snapshot, SnapshotSubcommand::Edit
SnapshotEdit ==
    /\ pc = "loaded"
    /\ \E date \in DateInputs, answer \in Answers :
        LET input == [date |-> date, answer |-> answer]
            currencies == collect_non_usd_currencies(portfolio)
        IN  IF ~validate_date(date).ok
            THEN Return("snapshot edit", input, validate_date(date), portfolio)
            ELSE IF ~HasSnapshot(portfolio, date)
            THEN Return("snapshot edit", input, Err(<<"SnapshotNotFound", date>>), portfolio)
            ELSE IF ~confirm(answer)
            THEN Return("snapshot edit", input, Ok("Aborted."), portfolio)
            ELSE LET idx == FirstSnapshot(portfolio, date)
                     existing == portfolio.snapshots[idx]
                 IN  \/ /\ currencies /= <<>> \/ portfolio.assets /= <<>>
                        /\ Return("snapshot edit", input, StdinErr, portfolio)
                     \/ \E rates \in PromptRates(currencies, existing.rates, TypedRates) :
                            IF ~rates.ok THEN Return("snapshot edit", input, rates, portfolio)
                            ELSE \E entries \in PromptAssetValues(portfolio.assets,
                                                    existing_map(existing.entries),
                                                    TypedValues) :
                                    save_portfolio("snapshot edit", input,
                                        Portfolio(portfolio.assets,
                                                  [portfolio.snapshots EXCEPT
                                                      ![idx] = Snapshot(existing.date,
                                                                        rates.val, entries)]),
                                        "Snapshot updated.")

\* handle_snapshot, SnapshotSubcommand::List
SnapshotList ==
    /\ pc = "loaded"
    /\ Return("snapshot list", <<>>, Ok(portfolio.snapshots), portfolio)

\* handle_show; out holds the date, the grand total, the rows and the
\* allocation handed to display::print_show
Show ==
    /\ pc = "loaded"
    /\ \E date \in OptionOf(DateInputs), category \in OptionOf({"etf"}) :
        LET input == [date |-> date, category |-> category]
        IN  IF portfolio.snapshots = <<>>
            THEN Return("show", input, Ok("No snapshots yet."), portfolio)
            ELSE IF date.some /\ ~validate_date(date.val).ok
            THEN Return("show", input, validate_date(date.val), portfolio)
            ELSE IF date.some /\ ~HasSnapshot(portfolio, date.val)
            THEN Return("show", input, Err(<<"SnapshotNotFound", date.val>>), portfolio)
            ELSE LET snapshot == IF date.some
                                 THEN portfolio.snapshots[FirstSnapshot(portfolio, date.val)]
                                 ELSE portfolio.snapshots[Len(portfolio.snapshots)]
                     r == compute_show_rows(snapshot, portfolio, category)
                 IN  IF ~r.ok THEN Return("show", input, r, portfolio)
                     ELSE \E totals \in map_iter(category_totals(r.val.rows)) :
                            Return("show", input,
                                   Ok([date |-> snapshot.date, grand_total |-> r.val.total,
                                       rows |-> r.val.rows,
                                       allocation |-> compute_allocation(totals, r.val.total)]),
                                   portfolio)

\* handle_history; today is chrono::Local::now().date_naive().to_string()
History ==
    /\ pc = "loaded"
    /\ \E token \in RangeTokens, today \in Todays :
        LET input == [range |-> token, today |-> today]
            range == range_from_str(token)
        IN  IF ~range.ok THEN Return("history", input, range, portfolio)
            ELSE LET filtered == filter_by_range(portfolio.snapshots, range.val, today)
                     rows == compute_history_rows(filtered, portfolio)
                 IN  IF filtered = <<>>
                     THEN Return("history", input, Ok("No snapshots in range."), portfolio)
                     ELSE Return("history", input, rows, portfolio)

Next ==
    \/ Load
    \/ LoadFails
    \/ AssetAdd
    \/ AssetEdit
    \/ AssetRemove
    \/ AssetList
    \/ SnapshotAdd
    \/ SnapshotEdit
    \/ SnapshotList
    \/ Show
    \/ History
    \/ Exit

Spec == Init /\ [][Next]_vars

\* C1: the snapshots of the persisted document are ascending by date under
\* lexicographic string comparison after any commands, and a portfolio loaded
\* from it has its snapshots ascending by date.
C1_SavedSnapshotsAscending ==
    /\ file.present =>
          \A i, j \in DOMAIN file.doc.snapshots :
              i < j => LexGeq(file.doc.snapshots[j].date, file.doc.snapshots[i].date)
    /\ pc = "loaded" =>
          \A i, j \in DOMAIN portfolio.snapshots :
              i < j => LexGeq(portfolio.snapshots[j].date, portfolio.snapshots[i].date)

\* a snapshot add whose snapshot, pushed last in memory, is first in the saved
\* document
C1_Witness ==
    /\ pc = "done"
    /\ out.val.cmd = "snapshot add"
    /\ out.val.res.ok
    /\ Len(file.doc.snapshots) = 2
    /\ file.doc.snapshots[1].date = out.val.input.date
-----------------------------------------------------------------------------
(* SpecChange: compute_change on every drawn pair of totals *)

MaxTotal == 3
ChangeTotals == {Rat(n, d) : n \in (0 - MaxTotal)..MaxTotal, d \in 1..2}

InitChange ==
    /\ Idle
    /\ pc = "call"
    /\ ret = NotCalled
    /\ args \in [prev : ChangeTotals, current : ChangeTotals]

CallComputeChange == Call(compute_change(args.prev, args.current))

NextChange == CallComputeChange

SpecChange == InitChange /\ [][NextChange]_vars

\* C11: for all totals p and c, compute_change(p, c) returns the absolute
\* change c - p, and a percentage that is exactly 0 when p is exactly 0 and
\* (c - p) / p * 100 otherwise.  (x = a / b is stated as x * b = a on the
\* numerators and denominators.)
C11_ChangeIsDifferenceAndGuardedPercent ==
    ret.called =>
        LET p == args.prev
            c == args.current
            usd == ret.val[1]
            pct == ret.val[2]
        IN  /\ usd.d > 0
            /\ usd.n * (c.d * p.d) = (c.n * p.d - p.n * c.d) * usd.d
            /\ p.n = 0 => pct.n = 0 /\ pct.d = 1
            /\ p.n /= 0 =>
                  /\ pct.d > 0
                  /\ pct.n * (p.n * c.d) = 100 * (c.n * p.d - p.n * c.d) * pct.d

\* a previous total of exactly zero and a current total that is not: the
\* percentage returned is 0 and the absolute change is the current total
C11_Witness ==
    /\ ret.called
    /\ args.prev = F(0)
    /\ args.current = Rat(3, 2)
    /\ ret.val = <<Rat(3, 2), F(0)>>

-----------------------------------------------------------------------------
(* SpecAlloc: compute_allocation on every drawn map of category totals, in     *)
(* every order the map can be iterated in, and every drawn grand total         *)

AllocCategories == {"etf", "bank", "cash"}
AllocTotals == {F(i) : i \in 0..MaxTotal} \cup {Rat(1, 2)}
AllocGrands == {F(i) : i \in (0 - 1)..(3 * MaxTotal)}

InitAlloc ==
    /\ Idle
    /\ pc = "call"
    /\ ret = NotCalled
    /\ \E m \in RateTables(AllocCategories, AllocTotals), g \in AllocGrands :
          \E it \in map_iter(m) :
              args = [category_totals |-> m, iter |-> it, grand_total |-> g]

CallComputeAllocation == Call(compute_allocation(args.iter, args.grand_total))

NextAlloc == CallComputeAllocation

SpecAlloc == InitAlloc /\ [][NextAlloc]_vars

RECURSIVE SumOver(_, _)
SumOver(m, keys) ==
    IF keys = {} THEN F(0)
    ELSE LET k == CHOOSE k \in keys : TRUE
         IN  RatAdd(m[k], SumOver(m, keys \ {k}))

\* C12: compute_allocation on an empty map or a zero grand total returns the
\* empty sequence; otherwise it returns exactly one pair per category, with
\* percentage category_total / grand_total * 100, the percentages sum to 100
\* when grand_total is the sum of the category totals, and the sequence is
\* non-increasing by percentage.
C12_AllocationPercentagesSortedDescending ==
    ret.called =>
        LET m == args.category_totals
            g == args.grand_total
            r == ret.val
        IN  /\ (DOMAIN m = {} \/ g.n = 0) => r = <<>>
            /\ (DOMAIN m /= {} /\ g.n /= 0) =>
                  /\ Len(r) = Cardinality(DOMAIN m)
                  /\ \A c \in DOMAIN m :
                        \E i \in DOMAIN r :
                            /\ r[i][1] = c
                            /\ r[i][2].d > 0
                            /\ r[i][2].n * (m[c].d * g.n) = 100 * m[c].n * g.d * r[i][2].d
                  /\ \A i, j \in DOMAIN r :
                        i < j => r[j][2].n * r[i][2].d <= r[i][2].n * r[j][2].d
                  /\ g = SumOver(m, DOMAIN m) =>
                        RatSum([i \in DOMAIN r |-> r[i][2]]) = F(100)

\* three categories iterated in an order that is not by percentage, the grand
\* total their sum: the pairs come back greatest first and sum to 100
C12_Witness ==
    /\ ret.called
    /\ args.iter = <<<<"bank", F(1)>>, <<"etf", F(3)>>, <<"cash", F(2)>>>>
    /\ args.grand_total = F(6)
    /\ ret.val = <<<<"etf", F(50)>>, <<"cash", Rat(100, 3)>>, <<"bank", Rat(50, 3)>>>>

-----------------------------------------------------------------------------
(* Claims on Spec: dates *)

\* stated apart from the code: a zero-padded YYYY-MM-DD string, and the day
\* of the calendar a stored date names, as a number that grows with time
IsZeroPaddedIso(s) ==
    /\ Len(s) = 10
    /\ s[5] = Dash /\ s[8] = Dash
    /\ \A i \in {1, 2, 3, 4, 6, 7, 9, 10} : s[i] \in 48..57
DayNumber(s) ==
    LET dt == parse_from_str(s).val
    IN  (dt.y * 12 + (dt.m - 1)) * 31 + (dt.d - 1)

\* C13: in every portfolio state reached through snapshot add from an empty
\* portfolio, every snapshot date is a zero-padded YYYY-MM-DD string, and
\* lexicographic comparison of any two snapshot dates agrees with their
\* chronological order.
C13_SnapshotDatesZeroPadded ==
    /\ \A i \in DOMAIN portfolio.snapshots : IsZeroPaddedIso(portfolio.snapshots[i].date)
    /\ \A i, j \in DOMAIN portfolio.snapshots :
          LexGeq(portfolio.snapshots[i].date, portfolio.snapshots[j].date)
              <=> DayNumber(portfolio.snapshots[i].date) >= DayNumber(portfolio.snapshots[j].date)

-----------------------------------------------------------------------------
(* Claims on Spec: what a command may change *)

\* the step in which the command cmd runs, from the loaded portfolio to its end
Ran(cmd) == pc = "loaded" /\ pc' = "done" /\ out'.val.cmd = cmd

NoTwoSameDate(snaps) ==
    \A i, j \in DOMAIN snaps : i /= j => snaps[i].date /= snaps[j].date
DatesOf(snaps) == [i \in DOMAIN snaps |-> snaps[i].date]

\* C14: after any sequence of commands no two snapshots, in memory or in the
\* saved document, have the same date string; snapshot add for a date that
\* already exists fails with SnapshotAlreadyExists, changes nothing in the
\* portfolio and does not save; snapshot edit changes neither the dates nor
\* the number of the snapshots.
C14_SnapshotDatesUnique ==
    /\ [](/\ NoTwoSameDate(portfolio.snapshots)
          /\ file.present => NoTwoSameDate(file.doc.snapshots))
    /\ [][/\ Ran("snapshot add") =>
                LET date == out'.val.input.date
                IN  (\E i \in DOMAIN portfolio.snapshots : portfolio.snapshots[i].date = date)
                        => /\ out'.val.res = Err(<<"SnapshotAlreadyExists", date>>)
                           /\ out'.val.writes = 0
                           /\ portfolio' = portfolio
                           /\ file' = file
          /\ Ran("snapshot edit") =>
                /\ DatesOf(portfolio'.snapshots) = DatesOf(portfolio.snapshots)
                /\ file'.present => DatesOf(file'.doc.snapshots) = DatesOf(portfolio.snapshots)
       ]_vars

\* a snapshot add refused for a date the portfolio of two snapshots already has
C14_Witness ==
    /\ pc = "done"
    /\ out.val.cmd = "snapshot add"
    /\ out.val.res = Err(<<"SnapshotAlreadyExists", out.val.input.date>>)
    /\ Len(portfolio.snapshots) = 2
    /\ portfolio.snapshots[2].date = out.val.input.date

NoTwoSameId(assets) ==
    \A i, j \in DOMAIN assets : i /= j => assets[i].id /= assets[j].id
IdsOf(assets) == [i \in DOMAIN assets |-> assets[i].id]
IdPresent(id) == \E i \in DOMAIN portfolio.assets : portfolio.assets[i].id = id
Untouched == out'.val.writes = 0 /\ portfolio' = portfolio /\ file' = file

\* C15: after any sequence of commands no two assets, in memory or in the saved
\* document, have the same id; asset add with an id already present fails with
\* DuplicateAssetId, changes nothing and does not save; asset edit never
\* changes an id; asset edit or remove of an id not present fails with
\* AssetNotFound, changes nothing and does not save.
C15_AssetIdsUnique ==
    /\ [](/\ NoTwoSameId(portfolio.assets)
          /\ file.present => NoTwoSameId(file.doc.assets))
    /\ [][/\ (Ran("asset add") /\ IdPresent(out'.val.input.id)) =>
                /\ out'.val.res = Err(<<"DuplicateAssetId", out'.val.input.id>>)
                /\ Untouched
          /\ Ran("asset edit") =>
                /\ IdsOf(portfolio'.assets) = IdsOf(portfolio.assets)
                /\ file'.present => IdsOf(file'.doc.assets) = IdsOf(load_portfolio(file).assets)
          /\ ((Ran("asset edit") \/ Ran("asset remove")) /\ ~IdPresent(out'.val.input.id)) =>
                /\ out'.val.res = Err(<<"AssetNotFound", out'.val.input.id>>)
                /\ Untouched
       ]_vars

\* an asset add refused for an id the portfolio of two assets already has
C15_Witness ==
    /\ pc = "done"
    /\ out.val.cmd = "asset add"
    /\ out.val.res = Err(<<"DuplicateAssetId", out.val.input.id>>)
    /\ Len(portfolio.assets) = 2
    /\ portfolio.assets[2].id = out.val.input.id

\* stated apart from the code: the currencies other than USD among the assets
NonUsdCurrencies(assets) == {assets[i].currency : i \in DOMAIN assets} \ {"USD"}
KeysOf(members) == {members[k].key : k \in DOMAIN members}

\* C16: every snapshot written by a successful snapshot add or snapshot edit
\* has a rates table whose key set is exactly the set of distinct non-USD
\* currencies of the assets present at that moment, and no snapshot of the
\* portfolio or of the saved document ever has a "USD" key in rates.
C16_RateKeysAreNonUsdCurrencies ==
    /\ [](/\ \A i \in DOMAIN portfolio.snapshots :
                "USD" \notin DOMAIN portfolio.snapshots[i].rates
          /\ file.present =>
                \A i \in DOMAIN file.doc.snapshots :
                    "USD" \notin KeysOf(file.doc.snapshots[i].rates))
    /\ [][((Ran("snapshot add") \/ Ran("snapshot edit")) /\ out'.val.writes = 1) =>
             /\ \E i \in DOMAIN file'.doc.snapshots :
                   file'.doc.snapshots[i].date = out'.val.input.date
             /\ \A i \in DOMAIN file'.doc.snapshots :
                   file'.doc.snapshots[i].date = out'.val.input.date =>
                       /\ KeysOf(file'.doc.snapshots[i].rates)
                              = NonUsdCurrencies(portfolio.assets)
                       /\ DOMAIN portfolio'.snapshots[i].rates
                              = NonUsdCurrencies(portfolio.assets)
       ]_vars

\* a snapshot add on a portfolio of a USD asset and a EUR asset: the snapshot
\* written has a rate for EUR alone
C16_Witness ==
    /\ pc = "done"
    /\ out.val.cmd = "snapshot add"
    /\ out.val.writes = 1
    /\ {portfolio.assets[i].currency : i \in DOMAIN portfolio.assets} = {"USD", "EUR"}
    /\ \E i \in DOMAIN file.doc.snapshots :
          /\ file.doc.snapshots[i].date = out.val.input.date
          /\ KeysOf(file.doc.snapshots[i].rates) = {"EUR"}

\* stated apart from the code: text without an upper-case, without a lower-case
\* ASCII letter
NoUpperCase(s) == \A k \in DOMAIN Spell(s) : Spell(s)[k] \notin 65..90
NoLowerCase(s) == \A k \in DOMAIN Spell(s) : Spell(s)[k] \notin 97..122
Normalised(assets) ==
    \A i \in DOMAIN assets : NoUpperCase(assets[i].category) /\ NoLowerCase(assets[i].currency)

\* C17: after any sequence of asset add and asset edit commands, every asset
\* of the portfolio and of the saved document has a category equal to its own
\* lower-casing and a currency equal to its own upper-casing, whatever letter
\* case was given on the command line.
C17_CategoryLowerCurrencyUpper ==
    /\ Normalised(portfolio.assets)
    /\ file.present => Normalised(file.doc.assets)

\* an asset edit given the category "Etf" and the currency "usd" has saved the
\* asset with "etf" and "USD"
C17_Witness ==
    /\ pc = "done"
    /\ out.val.cmd = "asset edit"
    /\ out.val.writes = 1
    /\ out.val.input.category = Some("Etf")
    /\ out.val.input.currency = Some("usd")
    /\ \E i \in DOMAIN file.doc.assets :
          /\ file.doc.assets[i].id = out.val.input.id
          /\ file.doc.assets[i].category = "etf"
          /\ file.doc.assets[i].currency = "USD"

\* stated apart from the code: the answers that confirm, the commands that only
\* read, and the errors of domain validation
Letters(answer) == SelectSeq(Spell(answer), LAMBDA c : c \notin {9, 10, 13, 32})
SaysYes(answer) ==
    [k \in DOMAIN Letters(answer) |->
        IF Letters(answer)[k] \in 65..90 THEN Letters(answer)[k] + 32 ELSE Letters(answer)[k]]
      \in {<<121>>, <<121, 101, 115>>}
ReadOnlyCommands == {"show", "history", "asset list", "snapshot list"}
DomainErrors == {"DuplicateAssetId", "AssetNotFound", "SnapshotAlreadyExists",
                 "SnapshotNotFound", "InvalidDate", "InvalidHistoryRange",
                 "RateMissing", "UsdRateRejected"}
NoFieldGiven(input) == ~input.name.some /\ ~input.category.some /\ ~input.currency.some

\* C18: within one process invocation the portfolio is loaded once, before the
\* command runs, and the portfolio file is written at most once; it is not
\* written by show, history, asset list or snapshot list, by a command that
\* fails domain validation, by an asset remove or snapshot edit whose
\* confirmation is declined, or by an asset edit given no field to change.
C18_LoadedOnceWrittenAtMostOnce ==
    /\ [](/\ pc = "loaded" => portfolio = load_portfolio(file)
          /\ out.some => out.val.writes \in {0, 1})
    /\ [][/\ pc' = "loaded" => pc = "idle"
          /\ (pc' = "done" /\ out'.val.cmd /= "load") => pc = "loaded"
          /\ file' /= file => (pc = "loaded" /\ pc' = "done" /\ out'.val.writes = 1)
          /\ (pc = "loaded" /\ pc' = "done") =>
                LET did == out'.val
                IN  (\/ did.cmd \in ReadOnlyCommands
                     \/ ~did.res.ok /\ did.res.err[1] \in DomainErrors
                     \/ did.cmd \in {"asset remove", "snapshot edit"}
                           /\ "answer" \in DOMAIN did.input /\ ~SaysYes(did.input.answer)
                     \/ did.cmd = "asset edit" /\ NoFieldGiven(did.input))
                    => (file' = file /\ did.writes = 0)
       ]_vars

\* an asset remove that was declined: the asset is still there and nothing was
\* written
C18_Witness ==
    /\ pc = "done"
    /\ out.val.cmd = "asset remove"
    /\ out.val.input.answer = "n\n"
    /\ out.val.res = Ok("Aborted.")
    /\ out.val.writes = 0
    /\ file.present
    /\ file.doc.assets = portfolio.assets
    /\ \E i \in DOMAIN portfolio.assets : portfolio.assets[i].id = out.val.input.id

\* stated apart from the code: the entries of snapshot s that name an asset of
\* assets, and the currencies such an entry needs a rate for
Dangling(s, assets) ==
    \E k \in DOMAIN s.entries :
        \A i \in DOMAIN assets : assets[i].id /= s.entries[k].asset_id
NeedsRate(s, assets, currency) ==
    \E k \in DOMAIN s.entries, i \in DOMAIN assets :
        /\ assets[i].id = s.entries[k].asset_id
        /\ assets[i].currency = currency

\* C19: a confirmed asset remove of id X removes asset X alone from the asset
\* list and leaves every snapshot's date, rates and entries as they were, in
\* memory and in the saved document; a show or history never fails because of
\* an entry whose asset is gone: its only failures are an invalid date or
\* range, a date not found, and a rate missing for the currency of an asset
\* that an entry resolves to.
C19_RemoveLeavesSnapshotsAndReportsWork ==
    /\ []((pc = "done" /\ out.val.cmd \in {"show", "history"} /\ ~out.val.res.ok) =>
             LET err == out.val.res.err
             IN  /\ err[1] \in {"InvalidDate", "SnapshotNotFound", "InvalidHistoryRange",
                                "RateMissing"}
                 /\ err[1] = "RateMissing" =>
                       \E i \in DOMAIN portfolio.snapshots :
                           /\ NeedsRate(portfolio.snapshots[i], portfolio.assets, err[2])
                           /\ err[2] \notin DOMAIN portfolio.snapshots[i].rates)
    /\ [][(Ran("asset remove") /\ out'.val.writes = 1) =>
             LET X == out'.val.input.id
             IN  /\ \E k \in DOMAIN portfolio.assets :
                       /\ portfolio.assets[k].id = X
                       /\ portfolio'.assets =
                             [i \in 1..(Len(portfolio.assets) - 1) |->
                                 IF i < k THEN portfolio.assets[i] ELSE portfolio.assets[i + 1]]
                 /\ portfolio'.snapshots = portfolio.snapshots
                 /\ from_str(file'.doc) = portfolio'
       ]_vars

\* a show that succeeds on a snapshot with an entry whose asset was removed:
\* the entry of the remaining asset is the only row
C19_Witness ==
    /\ pc = "done"
    /\ out.val.cmd = "show"
    /\ out.val.res.ok
    /\ Len(portfolio.snapshots) = 1
    /\ Len(portfolio.snapshots[1].entries) = 2
    /\ Dangling(portfolio.snapshots[1], portfolio.assets)
    /\ Len(portfolio.assets) = 1
    /\ Len(out.val.res.val.rows) = 1

-----------------------------------------------------------------------------
(* Claims on Spec: which snapshot show reports *)

ShowDone == pc = "done" /\ out.val.cmd = "show"
Dated(D) == {i \in DOMAIN portfolio.snapshots : portfolio.snapshots[i].date = D}
Greatest == {i \in DOMAIN portfolio.snapshots :
                \A j \in DOMAIN portfolio.snapshots :
                    LexGeq(portfolio.snapshots[i].date, portfolio.snapshots[j].date)}
\* the show of snapshot s: its date, total and rows, or the rate it lacks
Reports(res, s, category) ==
    LET r == compute_show_rows(s, portfolio, category)
    IN  IF r.ok
        THEN /\ res.ok
             /\ res.val.date = s.date
             /\ res.val.grand_total = r.val.total
             /\ res.val.rows = r.val.rows
        ELSE res = r

-----------------------------------------------------------------------------
(* Claims on SpecShow: the category filter and the missing rate *)

\* stated on the arguments alone: the entry resolves to an asset whose currency
\* is not USD and has no rate in the snapshot
ArgLacksRate(e) ==
    /\ ArgResolves(e)
    /\ ArgAsset(e).currency /= "USD"
    /\ ArgAsset(e).currency \notin DOMAIN args.snapshot.rates

\* C21: the category filter is applied before the conversion: with a filter
\* set, the call fails if and only if some entry that resolves to an asset of
\* the filter's category has a non-USD currency absent from the snapshot's
\* rates, and then it fails with RateMissing for the first such entry's
\* currency; a rate missing for an asset of another category never makes it
\* fail.
C21_FilterBeforeConversion ==
    (ret.called /\ args.category_filter.some) =>
        LET entries == args.snapshot.entries
            failing == {k \in DOMAIN entries :
                           ArgKept(entries[k]) /\ ArgLacksRate(entries[k])}
        IN  /\ ~ret.val.ok <=> failing /= {}
            /\ ~ret.val.ok =>
                  \E k \in failing :
                      /\ \A j \in failing : k <= j
                      /\ ret.val.err = <<"RateMissing", ArgAsset(entries[k]).currency>>

\* a filtered call that succeeds with one row although an entry of another
\* category lacks its rate: the same snapshot without the filter fails
C21_Witness ==
    /\ ret.called
    /\ args.category_filter = Some("etf")
    /\ ret.val.ok
    /\ Len(ret.val.val.rows) = 1
    /\ \E k \in DOMAIN args.snapshot.entries :
          /\ ArgLacksRate(args.snapshot.entries[k])
          /\ ArgAsset(args.snapshot.entries[k]).category = "bank"
    /\ ~compute_show_rows(args.snapshot, args.portfolio, None).ok

=============================================================================
